---- MODULE Spec2Model ----
(***************************************************************************)
(* A model of jxp-helper.js: the JXPHelper client (configuration, query    *)
(* string construction, one action per method) against an opaque backend   *)
(* that answers every HTTP request with any status and body, or not at     *)
(* all.  An async method is split at its awaits: X_call is the part that   *)
(* runs synchronously when the method is called, X_then the part that runs *)
(* when the awaited promise settles.                                       *)
(***************************************************************************)
EXTENDS FiniteSets, Integers, Sequences, TLC

VARIABLES
    helper,      \* the fields of the JXPHelper instance (this)
    ctor,        \* how the last `new JXPHelper(opts)` ended: none, ok, threw
    opts,        \* the options object the caller holds and passes to calls
    invocation,  \* the method the caller invoked last, with its arguments
    stack,       \* the async calls that are suspended at an await
    net,         \* the HTTP requests issued since the invocation started
    resps,       \* what axios settled each of these requests with
    console,     \* the console output since the invocation started
    outcome      \* how the promise returned to the caller settled

vars == <<helper, ctor, opts, invocation, stack, net, resps, console, outcome>>

---------------------------------------------------------------------------
(* Bounds *)

\* longest options mapping the caller builds
MaxOpts == 2
\* longest array the caller passes (option value, records, key list)
MaxArr == 2
\* longest listing the backend returns
MaxList == 2

---------------------------------------------------------------------------
(* JavaScript values.  Every value is a record tagged by t.                *)

Undefined == [t |-> "undefined"]
Null == [t |-> "null"]
\* a string is the sequence of its characters (a token without reserved
\* characters stands for a run of them)
JsString(s) == [t |-> "string", s |-> s]
JsNumber(n) == [t |-> "number", n |-> n]
JsBoolean(b) == [t |-> "boolean", b |-> b]
JsArray(a) == [t |-> "array", a |-> a]
\* an Error object thrown by the runtime (it has no response property)
JsError(name) == [t |-> "error", name |-> name]
TypeError == JsError("TypeError")
ReferenceError == JsError("ReferenceError")

\* v.p for a property p the code reads; reading a property of undefined or
\* null throws a TypeError, which the caller of GetProp must handle first
Nullish(v) == v.t \in {"undefined", "null"}
GetProp(v, p) ==
    IF v.t = "object"
    THEN IF \E i \in 1..Len(v.m) : v.m[i].k = p
         THEN v.m[CHOOSE i \in 1..Len(v.m) : v.m[i].k = p].v
         ELSE Undefined
    ELSE IF p \in DOMAIN v THEN v[p] ELSE Undefined

\* ToBoolean
Truthy(v) ==
    CASE v.t \in {"undefined", "null"} -> FALSE
      [] v.t = "string" -> v.s # <<>>
      [] v.t = "number" -> v.n # 0
      [] v.t = "boolean" -> v.b
      [] OTHER -> TRUE

\* String(v), as a template literal or a string concatenation computes it
StringOf(v) ==
    CASE v.t = "string" -> v.s
      [] v.t = "number" -> IF v.n = 1 THEN <<"1">> ELSE <<"0">>
      [] v.t = "undefined" -> <<"undefined">>
      [] v.t = "null" -> <<"null">>
      [] OTHER -> <<"[object Object]">>

RECURSIVE Flatten(_)
Flatten(ss) == IF ss = <<>> THEN <<>> ELSE Head(ss) \o Flatten(Tail(ss))

\* encodeURIComponent: the reserved characters are percent-escaped
EncodeChar(c) ==
    CASE c = "&" -> "%26"
      [] c = "=" -> "%3D"
      [] c = " " -> "%20"
      [] OTHER -> c
encodeURIComponent(v) ==
    LET cs == StringOf(v) IN [i \in 1..Len(cs) |-> EncodeChar(cs[i])]

---------------------------------------------------------------------------
(* The values of the model's inputs *)

S1 == JsString(<<"http://s1">>)
S2 == JsString(<<"http://s2">>)
EmptyString == JsString(<<>>)
K1 == JsString(<<"k", "&", "1">>)

\* a property the caller's object does not have
Absent == [t |-> "absent"]

ServerValues == {EmptyString, S1, S2}
ApikeyValues == {K1}
BooleanValues == {JsBoolean(TRUE), JsBoolean(FALSE)}

\* the objects passed to the constructor and to config()
ConfigObjects ==
    [server : ServerValues \cup {Absent}, apikey : ApikeyValues \cup {Absent},
     debug : BooleanValues \cup {Absent},
     hideErrors : BooleanValues \cup {Absent}]

---------------------------------------------------------------------------
(* constructor, config *)

\* for (var opt in opts) this[opt] = opts[opt]
configFields(this, o) ==
    [f \in DOMAIN this |->
        IF f \in DOMAIN o /\ o[f] # Absent THEN o[f] ELSE this[f]]

\* Object.assign({}, defaults, opts)
defaults == [debug |-> JsBoolean(FALSE), hideErrors |-> JsBoolean(FALSE)]
assignDefaults(o) ==
    [f \in DOMAIN o |->
        IF o[f] = Absent /\ f \in DOMAIN defaults THEN defaults[f] ELSE o[f]]

\* the object under construction, before config(opts) has run
NewObject ==
    [server |-> Undefined, apikey |-> Undefined, debug |-> Undefined,
     hideErrors |-> Undefined, api |-> Undefined]

\* mutant of serverMissing: only a missing server is refused, an empty one
\* passes
serverMissing_undefinedOnly(this) == this.server.t = "undefined"

\* !this.server
serverMissing(this) == ~Truthy(this.server)


---------------------------------------------------------------------------
(* Options mappings.  An object is the sequence of its own properties in   *)
(* insertion order, as for..in enumerates them (no key here is an integer  *)
(* index).                                                                 *)

JsObject(m) == [t |-> "object", m |-> m]
Prop(k, v) == [k |-> k, v |-> v]
Keys(m) == {m[i].k : i \in 1..Len(m)}
Index(m, k) == CHOOSE i \in 1..Len(m) : m[i].k = k

\* obj[k] = v: a property that exists keeps its place
SetProp(m, k, v) ==
    IF k \in Keys(m)
    THEN [i \in 1..Len(m) |-> IF m[i].k = k THEN Prop(k, v) ELSE m[i]]
    ELSE Append(m, Prop(k, v))

\* a serializer that writes every property, array or not, as one pair
optParts_onePair(p) == << <<p.k, "=">> \o encodeURIComponent(p.v) >>

\* the parts one property contributes in _configParams
optParts(p) ==
    IF p.v.t = "array"
    THEN [j \in 1..Len(p.v.a) |-> <<p.k, "=">> \o encodeURIComponent(p.v.a[j])]
    ELSE << <<p.k, "=">> \o encodeURIComponent(p.v) >>

RECURSIVE join(_, _)
join(parts, sep) ==
    IF parts = <<>> THEN <<>>
    ELSE IF Len(parts) = 1 THEN parts[1]
    ELSE parts[1] \o <<sep>> \o join(Tail(parts), sep)

\* opts = opts || {}; opts.apikey = this.apikey: the object the loop runs on
configParamsObject(this, o) ==
    SetProp(IF Truthy(o) THEN o.m ELSE <<>>, "apikey", this.apikey)

\* _configParams(opts): the query string, as a sequence of characters
_configParams(this, o) ==
    LET m == configParamsObject(this, o)
    IN  join(Flatten([i \in 1..Len(m) |-> optParts(m[i])]), "&")

\* `?apikey=${this.apikey}`, as the methods without options write it
apikeyQuery(this) == <<"apikey", "=">> \o StringOf(this.apikey)

\* url(type, opts, ep = "api")
url(this, type, o, ep) ==
    [path |-> StringOf(this.server) \o <<"/", ep, "/", type>>,
     query |-> _configParams(this, o)]


---------------------------------------------------------------------------
(* HTTP: requests, and what axios settles them with *)

Request(method, path, query, body) ==
    [method |-> method, path |-> path, query |-> query, body |-> body]

\* the statuses of a response: 200, a 2xx status other than 200, and a
\* status outside 2xx
Statuses == {200, 204, 500}
statusText(n) ==
    JsString(<< CASE n = 200 -> "OK" [] n = 204 -> "No Content"
                  [] OTHER -> "Internal Server Error" >>)

Response(status, data) ==
    [t |-> "response", status |-> status, statusText |-> statusText(status),
     data |-> data]
\* the error axios rejects with; response is undefined when none arrived
AxiosError(response) == [t |-> "AxiosError", response |-> response]

Pending == [state |-> "pending"]
Resolved(v) == [state |-> "resolved", v |-> v]
Rejected(v) == [state |-> "rejected", v |-> v]

\* axios resolves on a 2xx status (the default validateStatus) and rejects
\* otherwise; reply is a Response, or Undefined when the transport failed
axios(reply) ==
    IF reply.t = "response" /\ reply.status >= 200 /\ reply.status < 300
    THEN Resolved(reply)
    ELSE Rejected(AxiosError(reply))

---------------------------------------------------------------------------
(* What a step of an async method does: the calls it leaves suspended      *)
(* (push, outermost first), the requests it issues, the lines it prints,   *)
(* and how its promise settles (Pending while it awaits).                  *)

Effect(push, requests, lines, settle) ==
    [push |-> push, net |-> requests, console |-> lines, settle |-> settle]
Frame(fn, loc) == [fn |-> fn, loc |-> loc, detached |-> FALSE]
NoLocals == [pc |-> 0]

\* if (this.debug) console.time(label) / console.timeEnd(label) / console.log
time(this) == IF Truthy(this.debug) THEN <<"time">> ELSE <<>>
timeEnd(this) == IF Truthy(this.debug) THEN <<"timeEnd">> ELSE <<>>
log(this) == IF Truthy(this.debug) THEN <<"log">> ELSE <<>>

\* the template of _displayError reads err.config.url, err.request.method
\* and err.response.status: only an axios error with a response has them
displayable(err) == err.t = "AxiosError" /\ err.response.t = "response"

\* _displayError(err): the line printed, or the raw dump of what the
\* template threw on
_displayError(this, err) ==
    IF Truthy(this.hideErrors) THEN <<>>
    ELSE IF displayable(err) THEN <<"error">> ELSE <<"dump">>

\* mutant of thrown: the raw error is thrown, never the response's body
thrown_raw(err) == err

\* the value of (err.response ? err.response.data : err); reading .response
\* of null or undefined throws a TypeError in its place
thrown(err) ==
    IF Nullish(err) THEN TypeError
    ELSE IF Truthy(GetProp(err, "response"))
         THEN GetProp(GetProp(err, "response"), "data")
         ELSE err

\* catch(err) { [timeEnd;] this._displayError(err); throw(...) }
catch(this, err, timed) ==
    Effect(<<>>, <<>>,
           (IF timed THEN timeEnd(this) ELSE <<>>) \o _displayError(this, err),
           Rejected(thrown(err)))


---------------------------------------------------------------------------
(* The methods that issue one request and check the status themselves *)

\* try { result = await axios...; if (result.status !== 200) throw
\* result.statusText; return result.data } catch (err) { ... }
statusChecked_then(this, s) ==
    IF s.state = "resolved"
    THEN IF s.v.status # 200
         THEN LET c == catch(this, s.v.statusText, TRUE)
              IN  [c EXCEPT !.console = timeEnd(this) \o @]
         ELSE Effect(<<>>, <<>>, timeEnd(this), Resolved(s.v.data))
    ELSE catch(this, s.v, TRUE)

getOne_call(this, type, id, o) ==
    Effect(<<Frame("getOne", NoLocals)>>,
           <<Request("GET", StringOf(this.api) \o <<"/", type, "/">>
                              \o StringOf(id),
                     _configParams(this, o), Undefined)>>,
           time(this), Pending)

get_call(this, type, o) ==
    LET u == url(this, type, o, "api")
    IN  Effect(<<Frame("get", NoLocals)>>,
               <<Request("GET", u.path, u.query, Undefined)>>,
               time(this), Pending)

csv_call(this, type, o) ==
    Effect(<<Frame("csv", NoLocals)>>,
           <<Request("GET", StringOf(this.server) \o <<"/", "csv", "/", type>>,
                     _configParams(this, o), Undefined)>>,
           time(this), Pending)

query_call(this, type, q, o) ==
    Effect(<<Frame("query", NoLocals)>>,
           <<Request("POST",
                     StringOf(this.server) \o <<"/", "query", "/", type>>,
                     _configParams(this, o), JsObject(<<Prop("query", q)>>))>>,
           time(this), Pending)

aggregate_call(this, type, q, o) ==
    Effect(<<Frame("aggregate", NoLocals)>>,
           <<Request("POST",
                     StringOf(this.server) \o <<"/", "aggregate", "/", type>>,
                     _configParams(this, o), JsObject(<<Prop("query", q)>>))>>,
           time(this), Pending)

\* opts = opts || {}; opts.limit = 1
countOpts(o) == JsObject(SetProp(IF Truthy(o) THEN o.m ELSE <<>>,
                                 "limit", JsNumber(1)))

count_call(this, type, o) ==
    LET u == url(this, type, countOpts(o), "count")
    IN  Effect(<<Frame("count", NoLocals)>>,
               <<Request("GET", u.path, u.query, Undefined)>>,
               time(this), Pending)

\* as statusChecked_then, but returns result.data.count: reading .count of a
\* null body throws inside the try
count_then(this, s) ==
    IF s.state = "resolved" /\ s.v.status = 200
    THEN IF Nullish(s.v.data)
         THEN LET c == catch(this, TypeError, TRUE)
              IN  [c EXCEPT !.console = timeEnd(this) \o @]
         ELSE Effect(<<>>, <<>>, timeEnd(this),
                     Resolved(GetProp(s.v.data, "count")))
    ELSE statusChecked_then(this, s)

---------------------------------------------------------------------------
(* The methods that issue one request and return its body *)

\* mutant of plain_then: a failed request is issued once more
plain_then_retry(this, s) ==
    IF s.state = "resolved"
    THEN Effect(<<>>, <<>>, <<>>, Resolved(s.v.data))
    ELSE Effect(<<Frame("retry", NoLocals)>>,
                <<Request("GET", <<>>, <<>>, Undefined)>>, <<>>, Pending)

\* try { return (await axios...).data } catch (err) {
\*     this._displayError(err); throw(...) }
plain_then(this, s) ==
    IF s.state = "resolved"
    THEN Effect(<<>>, <<>>, <<>>, Resolved(s.v.data))
    ELSE catch(this, s.v, FALSE)

bulkwritePath(this, type) ==
    StringOf(this.server) \o <<"/", "bulkwrite", "/", type>>

post_call(this, type, data) ==
    Effect(<<Frame("post", NoLocals)>>,
           <<Request("POST", StringOf(this.api) \o <<"/", type>>,
                     apikeyQuery(this), data)>>,
           log(this), Pending)

put_call(this, type, id, data) ==
    Effect(<<Frame("put", NoLocals)>>,
           <<Request("PUT", StringOf(this.api) \o <<"/", type, "/">>
                              \o StringOf(id),
                     apikeyQuery(this), data)>>,
           log(this), Pending)

\* del, del_perm, del_cascade, del_perm_cascade: flags is what the URL
\* carries before the apikey
delete_call(this, fn, type, id, flags) ==
    Effect(<<Frame(fn, NoLocals)>>,
           <<Request("DELETE", StringOf(this.api) \o <<"/", type, "/">>
                                 \o StringOf(id),
                     flags \o apikeyQuery(this), Undefined)>>,
           <<>>, Pending)
del_call(this, type, id) == delete_call(this, "del", type, id, <<>>)
del_perm_call(this, type, id) ==
    delete_call(this, "del_perm", type, id, <<"_permaDelete", "=", "1", "&">>)
del_cascade_call(this, type, id) ==
    delete_call(this, "del_cascade", type, id, <<"_cascade", "=", "1", "&">>)
del_perm_cascade_call(this, type, id) ==
    delete_call(this, "del_perm_cascade", type, id,
                <<"_cascade", "=", "1", "&", "_permaDelete", "=", "1", "&">>)


\* the name of the property that obj[key] and `filter[${key}]` address; an
\* array key is converted to the comma-joined string of its elements ("a,b"
\* stands for every such string of two or more names: no record has it)
propertyName(key) ==
    IF key.t = "array"
    THEN CASE Len(key.a) = 0 -> ""
           [] Len(key.a) = 1 -> key.a[1].s[1]
           [] OTHER -> "a,b"
    ELSE key.s[1]
filterName(key) ==
    CASE propertyName(key) = "name" -> "filter[name]"
      [] propertyName(key) = "_id" -> "filter[_id]"
      [] OTHER -> "filter[...]"

\* key.forEach(k => filter[k] = item[k]) or filter[key] = item[key]
RECURSIVE keyFilter(_, _, _)
keyFilter(filter, keys, item) ==
    IF keys = <<>> THEN filter
    ELSE keyFilter(SetProp(filter, propertyName(Head(keys)),
                           GetProp(item, propertyName(Head(keys)))),
                   Tail(keys), item)

updateOne(upsert, item, filter) ==
    JsObject(<<Prop("updateOne",
        JsObject(<<Prop("upsert", JsBoolean(upsert)), Prop("update", item),
                   Prop("filter", JsObject(filter))>>))>>)

\* data.map(item => ...) of bulk_postput
postputUpdates(key, data) ==
    JsArray([i \in 1..Len(data.a) |->
        updateOne(TRUE, data.a[i],
                  keyFilter(<<>>, IF key.t = "array" THEN key.a ELSE <<key>>,
                            data.a[i]))])

\* data.map(item => ...) of bulk_put
putUpdates(key, data) ==
    JsArray([i \in 1..Len(data.a) |->
        updateOne(FALSE, data.a[i], keyFilter(<<>>, <<key>>, data.a[i]))])

\* data.map(item => ...) of bulk_post
postInserts(data) ==
    JsArray([i \in 1..Len(data.a) |->
        JsObject(<<Prop("insertOne",
            JsObject(<<Prop("document", data.a[i])>>))>>)])

bulkwrite_call(this, fn, type, body, lines) ==
    Effect(<<Frame(fn, NoLocals)>>,
           <<Request("POST", bulkwritePath(this, type), apikeyQuery(this),
                     body)>>,
           lines, Pending)

\* data is an array of records, as the methods document it
bulk_put_call(this, type, key, data) ==
    bulkwrite_call(this, "bulk_put", type, putUpdates(key, data), <<>>)

bulk_post_call(this, type, data) ==
    bulkwrite_call(this, "bulk_post", type, postInserts(data), <<>>)

bulk_call(this, type, q) == bulkwrite_call(this, "bulk", type, q, log(this))

put_all_call(this, type, data) ==
    bulkwrite_call(this, "put_all", type,
        JsArray(<<JsObject(<<Prop("updateMany",
            JsObject(<<Prop("upsert", JsBoolean(FALSE)),
                       Prop("filter", JsObject(<<>>)),
                       Prop("update", JsObject(<<Prop("$set", data)>>))>>))>>)>>),
        log(this))

---------------------------------------------------------------------------
(* call, groups_*, getjwt, model, models *)

\* catch (err) { throw(...) }: no _displayError
silent_then(this, s) ==
    IF s.state = "resolved"
    THEN Effect(<<>>, <<>>, <<>>, Resolved(s.v.data))
    ELSE Effect(<<>>, <<>>, <<>>, Rejected(thrown(s.v)))

call_call(this, type, cmd, data) ==
    Effect(<<Frame("call", NoLocals)>>,
           <<Request("POST",
                     StringOf(this.server) \o <<"/", "call", "/", type, "/", cmd>>,
                     apikeyQuery(this), data)>>,
           log(this), Pending)

groupsPath(this, user_id) ==
    StringOf(this.server) \o <<"/", "groups", "/", user_id>>

groups_put_call(this, user_id, groups) ==
    Effect(<<Frame("groups_put", NoLocals)>>,
           <<Request("PUT", groupsPath(this, user_id), apikeyQuery(this),
                     JsObject(<<Prop("group", groups)>>))>>,
           <<>>, Pending)

groups_del_call(this, user_id, group) ==
    Effect(<<Frame("groups_del", NoLocals)>>,
           <<Request("DELETE", groupsPath(this, user_id),
                     <<"group", "=">> \o StringOf(group) \o <<"&">>
                        \o apikeyQuery(this),
                     Undefined)>>,
           <<>>, Pending)

groups_post_call(this, user_id, groups) ==
    Effect(<<Frame("groups_post", NoLocals)>>,
           <<Request("POST", groupsPath(this, user_id), apikeyQuery(this),
                     JsObject(<<Prop("group", groups)>>))>>,
           log(this), Pending)

\* catch (err) { if (err.response && err.response.data) return
\* Promise.reject(err.response.data); return Promise.reject(err) }
rejectData_then(this, s) ==
    IF s.state = "resolved"
    THEN Effect(<<>>, <<>>, <<>>, Resolved(s.v.data))
    ELSE Effect(<<>>, <<>>, <<>>,
                IF Truthy(s.v.response) /\ Truthy(s.v.response.data)
                THEN Rejected(s.v.response.data)
                ELSE Rejected(s.v))

getjwt_call(this, email) ==
    Effect(<<Frame("getjwt", NoLocals)>>,
           <<Request("POST", StringOf(this.server) \o <<"/", "login", "/", "getjwt">>,
                     apikeyQuery(this), JsObject(<<Prop("email", email)>>))>>,
           <<>>, Pending)

model_call(this, modelname) ==
    Effect(<<Frame("model", NoLocals)>>,
           <<Request("GET", StringOf(this.server) \o <<"/", "model", "/", modelname>>,
                     apikeyQuery(this), Undefined)>>,
           <<>>, Pending)

models_call(this) ==
    Effect(<<Frame("models", NoLocals)>>,
           <<Request("GET", StringOf(this.server) \o <<"/", "model">>,
                     apikeyQuery(this), Undefined)>>,
           <<>>, Pending)


---------------------------------------------------------------------------
(* login *)

login_call(this, email, password) ==
    Effect(<<Frame("login", [pc |-> 1])>>,
           <<Request("POST", StringOf(this.server) \o <<"/", "login">>, <<>>,
                     JsObject(<<Prop("email", email),
                                Prop("password", password)>>))>>,
           <<>>, Pending)

\* catch (err) { return err.response.data }: reading .data of an undefined
\* err.response throws a TypeError out of the catch block
login_catch(err) ==
    IF Nullish(GetProp(err, "response")) THEN Rejected(TypeError)
    ELSE Resolved(GetProp(GetProp(err, "response"), "data"))

login_then(this, f, s) ==
    IF s.state = "rejected"
    THEN Effect(<<>>, <<>>, <<>>, login_catch(s.v))
    ELSE IF f.loc.pc = 1
    THEN \* data = (...).data; the template reads data.user_id
         IF Nullish(s.v.data)
         THEN Effect(<<>>, <<>>, <<>>, login_catch(TypeError))
         ELSE Effect(<<Frame("login", [pc |-> 2, data |-> s.v.data])>>,
                     <<Request("GET",
                               StringOf(this.api) \o <<"/", "user", "/">>
                                 \o StringOf(GetProp(s.v.data, "user_id")),
                               apikeyQuery(this), Undefined)>>,
                     <<>>, Pending)
    ELSE Effect(<<>>, <<>>, <<>>,
                Resolved(JsObject(<<Prop("data", f.loc.data),
                                    Prop("user", s.v.data)>>)))

---------------------------------------------------------------------------
(* postput, bulk_postput *)

\* obj = {}; obj[`filter[${key}]`] = value
filterObject(key, value) == JsObject(<<Prop(filterName(key), value)>>)

postput_call(this, type, key, data) ==
    LET g == get_call(this, type,
                      filterObject(key, GetProp(data, propertyName(key))))
    IN  Effect(<<Frame("postput", [pc |-> 1, type |-> type, data |-> data])>>
                 \o g.push,
               g.net, g.console, Pending)

\* s is how this.get(type, obj) settled.  `return this.put(...)` and
\* `return this.post(...)` are not awaited: postput settles as they do
postput_then(this, f, s) ==
    IF s.state = "rejected" THEN catch(this, s.v, FALSE)
    ELSE IF Nullish(s.v) \/ Nullish(GetProp(s.v, "data"))
    THEN \* result.data.length throws inside the try
         catch(this, TypeError, FALSE)
    ELSE LET list == GetProp(s.v, "data")
         IN  IF list.t = "array" /\ Len(list.a) > 0
             THEN IF Nullish(list.a[1]) THEN catch(this, TypeError, FALSE)
                  ELSE put_call(this, f.loc.type, GetProp(list.a[1], "_id"),
                                f.loc.data)
             ELSE post_call(this, f.loc.type, f.loc.data)

bulk_postput_call(this, type, key, data) ==
    IF data.t # "array"
    THEN LET p == postput_call(this, type, key, data)
         IN  Effect(<<Frame("bulk_postput", [pc |-> 1])>> \o p.push,
                    p.net, p.console, Pending)
    ELSE bulkwrite_call(this, "bulk_postput", type,
                        postputUpdates(key, data), <<>>)

\* pc = 1: s is how `await this.postput(...)` settled; otherwise s is how
\* the bulkwrite request settled
bulk_postput_then(this, f, s) ==
    IF f.loc.pc = 1
    THEN IF s.state = "resolved" THEN Effect(<<>>, <<>>, <<>>, Resolved(s.v))
         ELSE catch(this, s.v, FALSE)
    ELSE plain_then(this, s)

---------------------------------------------------------------------------
(* del_all, sync *)

\* `await self.get(type, obj)`: the class has no `self`; evaluating it
\* throws e inside the try before anything is requested (a ReferenceError
\* where no global self exists, a TypeError where it is the global object)
del_all_call(this, type, key, id, e) == catch(this, e, FALSE)

\* `const data = await this.get(type, obj).data`: get is called and its
\* promise dropped, .data of a promise is undefined, and data.filter throws
\* a TypeError inside the try
sync_call(this, type, key, id, data) ==
    LET g == get_call(this, type, filterObject(key, id))
        c == catch(this, TypeError, FALSE)
    IN  Effect([i \in 1..Len(g.push) |-> [g.push[i] EXCEPT !.detached = TRUE]],
               g.net, g.console \o c.console, c.settle)


---------------------------------------------------------------------------
(* The event loop: a reply resumes the call that awaits it, and a call     *)
(* that settles resumes the call that awaits it in turn.                   *)

\* the continuation of the suspended call f, given how what it awaits settled
then(this, f, s) ==
    CASE f.fn \in {"getOne", "get", "csv", "query", "aggregate"} ->
            statusChecked_then(this, s)
      [] f.fn = "count" -> count_then(this, s)
      [] f.fn \in {"call", "groups_put"} -> silent_then(this, s)
      [] f.fn \in {"getjwt", "model", "models"} -> rejectData_then(this, s)
      [] f.fn = "login" -> login_then(this, f, s)
      [] f.fn = "postput" -> postput_then(this, f, s)
      [] f.fn = "bulk_postput" -> bulk_postput_then(this, f, s)
      [] OTHER -> plain_then(this, s)

\* st: the suspended calls, s: how what the innermost awaits settled.  The
\* result is the new stack, the requests and lines added, and how the
\* caller's promise settled (Pending: not yet, or not by this chain)
RECURSIVE resume(_, _, _)
resume(this, st, s) ==
    IF st = <<>>
    THEN [stack |-> <<>>, net |-> <<>>, console |-> <<>>, outcome |-> s]
    ELSE LET f == st[Len(st)]
             rest == SubSeq(st, 1, Len(st) - 1)
             e == then(this, f, s)
         IN  IF e.settle.state = "pending"
             THEN [stack |-> rest \o e.push, net |-> e.net,
                   console |-> e.console, outcome |-> Pending]
             ELSE IF f.detached
             THEN [stack |-> rest, net |-> e.net, console |-> e.console,
                   outcome |-> Pending]
             ELSE LET r == resume(this, rest, e.settle)
                  IN  [r EXCEPT !.net = e.net \o @,
                                !.console = e.console \o @]

---------------------------------------------------------------------------
(* The caller's inputs and the backend's replies *)

SeqsUpTo(S, n) == UNION {[1..k -> S] : k \in 0..n}

Types == {"user"}
IdA == JsString(<<"a">>)
IdB == JsString(<<"b">>)
Ids == {IdA, IdB}
Name1 == JsString(<<"n1">>)
Name2 == JsString(<<"n2">>)
RecA == JsObject(<<Prop("_id", IdA), Prop("name", Name1)>>)
RecB == JsObject(<<Prop("_id", IdB), Prop("name", Name2)>>)
RecNew == JsObject(<<Prop("name", Name1)>>)
Records == {RecA, RecB, RecNew}
RecordArrays == {JsArray(a) : a \in SeqsUpTo(Records, MaxArr)}
KeyName == JsString(<<"name">>)
KeyId == JsString(<<"_id">>)
KeyArgs == {KeyName, KeyId, JsArray(<<KeyName>>), JsArray(<<KeyName, KeyId>>)}

\* option values: a plain one, and one made of reserved characters
ValueA == JsString(<<"a">>)
ValueB == JsString(<<"&", "f", "=", " ">>)
FreshOptions ==
    {JsObject(<<Prop("f", ValueB)>>),
     JsObject(<<Prop("sort", JsArray(<<ValueB, ValueA>>)), Prop("f", ValueA)>>)}

\* bodies a reply can carry whatever the request: none, an error object, a
\* JSON null, and an object that has a response property of its own
ErrorBody == JsObject(<<Prop("message", JsString(<<"failed">>))>>)
WrappedBody ==
    JsObject(<<Prop("response", JsObject(<<Prop("data", ErrorBody)>>))>>)
FailBodies == {EmptyString, ErrorBody, Null, WrappedBody}

\* {data: [...], count}: what GET /api/{type} answers
Envelope(list) ==
    JsObject(<<Prop("data", JsArray(list)), Prop("count", JsNumber(Len(list)))>>)
Listings == SeqsUpTo({RecA, RecB}, MaxList)
LoginData == JsObject(<<Prop("user_id", IdA)>>)
CountBody == JsObject(<<Prop("count", JsNumber(1))>>)

\* the bodies the backend can send to the call f that awaits the reply
Bodies(f) ==
    FailBodies \cup
    CASE f.fn = "get" -> {Envelope(l) : l \in Listings}
      [] f.fn = "login" /\ f.loc.pc = 1 -> {LoginData}
      [] f.fn = "count" -> {CountBody}
      [] OTHER -> {RecA}

\* a reply: a response, or undefined when the transport failed
Replies(f) ==
    {Undefined} \cup {Response(st, b) : st \in Statuses, b \in Bodies(f)}

---------------------------------------------------------------------------
(* State *)

NoOutcome == [state |-> "none"]

Init ==
    /\ helper = NewObject
    /\ ctor = "none"
    /\ opts = Undefined
    /\ invocation = [op |-> "none"]
    /\ stack = <<>>
    /\ net = <<>>
    /\ resps = <<>>
    /\ console = <<>>
    /\ outcome = NoOutcome

\* the caller is between two calls: the previous one is over and taken note of
Idle == stack = <<>> /\ invocation.op = "none"

\* new JXPHelper(o)
constructor ==
    /\ Idle
    /\ \E o \in ConfigObjects :
        LET this == configFields(NewObject, assignDefaults(o))
        IN  /\ invocation' = [op |-> "constructor", opts |-> o]
            /\ IF serverMissing(this)
               THEN /\ ctor' = "threw"
                    /\ helper' = NewObject
                    /\ outcome' = [state |-> "threw",
                                   v |-> JsString(<<"parameter 'server' required">>)]
               ELSE /\ ctor' = "ok"
                    /\ helper' = [this EXCEPT
                            !.api = JsString(StringOf(this.server) \o <<"/api">>)]
                    /\ outcome' = [state |-> "returned"]
    /\ opts' = Undefined
    /\ net' = <<>>
    /\ resps' = <<>>
    /\ console' = <<>>
    /\ UNCHANGED stack

\* helper.config(o)
config ==
    /\ ctor = "ok"
    /\ Idle
    /\ \E o \in ConfigObjects :
        /\ invocation' = [op |-> "config", opts |-> o]
        /\ helper' = configFields(helper, o)
    /\ outcome' = [state |-> "returned"]
    /\ net' = <<>>
    /\ resps' = <<>>
    /\ console' = <<>>
    /\ UNCHANGED <<ctor, opts, stack>>

\* the caller invokes a method: inv names it and its arguments, e is what
\* its synchronous part does, o is the options object the caller is left with
invoke(inv, e, o) ==
    /\ invocation' = inv
    /\ stack' = e.push
    /\ net' = e.net
    /\ resps' = <<>>
    /\ console' = e.console
    /\ outcome' = e.settle
    /\ opts' = o
    /\ UNCHANGED <<helper, ctor>>

\* a method is invoked on a constructed helper once the previous call and
\* every request it left behind are over
Ready == ctor = "ok" /\ Idle

\* the caller takes note of how the call ended and goes on; the options
\* object it holds stays as the call left it
done ==
    /\ stack = <<>>
    /\ invocation.op # "none"
    /\ invocation' = [op |-> "none"]
    /\ net' = <<>>
    /\ resps' = <<>>
    /\ console' = <<>>
    /\ outcome' = NoOutcome
    /\ UNCHANGED <<helper, ctor, opts, stack>>

\* the request in flight is answered with one of the replies R
answer(R) ==
    /\ stack # <<>>
    /\ \E r \in R :
        LET e == resume(helper, stack, axios(r))
        IN  /\ stack' = e.stack
            /\ net' = net \o e.net
            /\ resps' = Append(resps, r)
            /\ console' = console \o e.console
            /\ outcome' = IF e.outcome.state = "pending" THEN outcome
                          ELSE e.outcome
    /\ UNCHANGED <<helper, ctor, opts, invocation>>

\* the backend answers the request in flight (or the transport fails)
reply == answer(Replies(stack[Len(stack)]))


---------------------------------------------------------------------------
(* The methods, as the caller invokes them *)

\* the options argument: none, a new object, or the object the caller
\* passed to an earlier call
OptionArgs == {Undefined, opts} \cup FreshOptions

\* the caller's object after _configParams has run on it
optsAfter(this, o) ==
    IF Truthy(o) THEN JsObject(configParamsObject(this, o)) ELSE Undefined

login ==
    /\ Ready
    /\ invoke([op |-> "login"],
              login_call(helper, JsString(<<"e@x">>), JsString(<<"pw">>)),
              Undefined)

getOne ==
    /\ Ready
    /\ \E type \in Types, id \in {IdA}, o \in OptionArgs :
        invoke([op |-> "getOne", type |-> type, id |-> id, opts |-> o],
               getOne_call(helper, type, id, o), optsAfter(helper, o))

get ==
    /\ Ready
    /\ \E type \in Types, o \in OptionArgs :
        invoke([op |-> "get", type |-> type, opts |-> o],
               get_call(helper, type, o), optsAfter(helper, o))

csv ==
    /\ Ready
    /\ \E type \in Types, o \in OptionArgs :
        invoke([op |-> "csv", type |-> type, opts |-> o],
               csv_call(helper, type, o), optsAfter(helper, o))

query ==
    /\ Ready
    /\ \E type \in Types, o \in OptionArgs :
        invoke([op |-> "query", type |-> type, opts |-> o],
               query_call(helper, type, RecNew, o), optsAfter(helper, o))

aggregate ==
    /\ Ready
    /\ \E type \in Types, o \in OptionArgs :
        invoke([op |-> "aggregate", type |-> type, opts |-> o],
               aggregate_call(helper, type, RecNew, o), optsAfter(helper, o))

count ==
    /\ Ready
    /\ \E type \in Types, o \in OptionArgs :
        invoke([op |-> "count", type |-> type, opts |-> o],
               count_call(helper, type, o),
               IF Truthy(o) THEN optsAfter(helper, countOpts(o)) ELSE Undefined)

bulk_postput ==
    /\ Ready
    /\ \E type \in Types, key \in KeyArgs, data \in RecordArrays \cup {RecA} :
        invoke([op |-> "bulk_postput", type |-> type, key |-> key,
                data |-> data],
               bulk_postput_call(helper, type, key, data), Undefined)

bulk_put ==
    /\ Ready
    /\ \E type \in Types, key \in {KeyName, KeyId}, data \in RecordArrays :
        invoke([op |-> "bulk_put", type |-> type, key |-> key, data |-> data],
               bulk_put_call(helper, type, key, data), Undefined)

bulk_post ==
    /\ Ready
    /\ \E type \in Types, data \in RecordArrays :
        invoke([op |-> "bulk_post", type |-> type, data |-> data],
               bulk_post_call(helper, type, data), Undefined)

bulk ==
    /\ Ready
    /\ \E type \in Types, data \in {postInserts(JsArray(<<RecNew>>))} :
        invoke([op |-> "bulk", type |-> type, data |-> data],
               bulk_call(helper, type, data), Undefined)

put_all ==
    /\ Ready
    /\ \E type \in Types, data \in {RecNew} :
        invoke([op |-> "put_all", type |-> type, data |-> data],
               put_all_call(helper, type, data), Undefined)

post ==
    /\ Ready
    /\ \E type \in Types, data \in Records :
        invoke([op |-> "post", type |-> type, data |-> data],
               post_call(helper, type, data), Undefined)

put ==
    /\ Ready
    /\ \E type \in Types, id \in Ids, data \in Records :
        invoke([op |-> "put", type |-> type, id |-> id, data |-> data],
               put_call(helper, type, id, data), Undefined)

postput ==
    /\ Ready
    /\ \E type \in Types, key \in {KeyName, KeyId}, data \in {RecA, RecNew} :
        invoke([op |-> "postput", type |-> type, key |-> key, data |-> data],
               postput_call(helper, type, key, data), Undefined)

del ==
    /\ Ready
    /\ \E type \in Types, id \in Ids :
        invoke([op |-> "del", type |-> type, id |-> id],
               del_call(helper, type, id), Undefined)

del_perm ==
    /\ Ready
    /\ \E type \in Types, id \in Ids :
        invoke([op |-> "del_perm", type |-> type, id |-> id],
               del_perm_call(helper, type, id), Undefined)

del_cascade ==
    /\ Ready
    /\ \E type \in Types, id \in Ids :
        invoke([op |-> "del_cascade", type |-> type, id |-> id],
               del_cascade_call(helper, type, id), Undefined)

del_perm_cascade ==
    /\ Ready
    /\ \E type \in Types, id \in Ids :
        invoke([op |-> "del_perm_cascade", type |-> type, id |-> id],
               del_perm_cascade_call(helper, type, id), Undefined)

del_all ==
    /\ Ready
    /\ \E type \in Types, key \in {KeyName}, id \in {Name1, Name2},
          e \in {ReferenceError, TypeError} :
        invoke([op |-> "del_all", type |-> type, key |-> key, id |-> id],
               del_all_call(helper, type, key, id, e), Undefined)

sync ==
    /\ Ready
    /\ \E type \in Types, key \in {KeyName}, id \in {Name1},
          data \in RecordArrays :
        invoke([op |-> "sync", type |-> type, key |-> key, id |-> id,
                data |-> data],
               sync_call(helper, type, key, id, data), Undefined)

call ==
    /\ Ready
    /\ \E type \in Types, cmd \in {"run"}, data \in {RecNew} :
        invoke([op |-> "call", type |-> type, cmd |-> cmd, data |-> data],
               call_call(helper, type, cmd, data), Undefined)

groups_put ==
    /\ Ready
    /\ \E g \in {JsArray(<<JsString(<<"admin">>)>>)} :
        invoke([op |-> "groups_put", groups |-> g],
               groups_put_call(helper, "u1", g), Undefined)

groups_del ==
    /\ Ready
    /\ \E g \in {JsString(<<"admin">>)} :
        invoke([op |-> "groups_del", group |-> g],
               groups_del_call(helper, "u1", g), Undefined)

groups_post ==
    /\ Ready
    /\ \E g \in {JsArray(<<JsString(<<"admin">>)>>)} :
        invoke([op |-> "groups_post", groups |-> g],
               groups_post_call(helper, "u1", g), Undefined)

getjwt ==
    /\ Ready
    /\ invoke([op |-> "getjwt"], getjwt_call(helper, JsString(<<"e@x">>)),
              Undefined)

model ==
    /\ Ready
    /\ invoke([op |-> "model"], model_call(helper, "user"), Undefined)

models ==
    /\ Ready
    /\ invoke([op |-> "models"], models_call(helper), Undefined)

Next ==
    \/ constructor \/ config \/ reply \/ done
    \/ login \/ getOne \/ get \/ csv \/ query \/ aggregate \/ count
    \/ bulk_postput \/ bulk_put \/ bulk_post \/ bulk \/ put_all
    \/ post \/ put \/ postput
    \/ del \/ del_perm \/ del_cascade \/ del_perm_cascade \/ del_all \/ sync
    \/ call \/ groups_put \/ groups_del \/ groups_post
    \/ getjwt \/ model \/ models

Spec == Init /\ [][Next]_vars

---------------------------------------------------------------------------
(* The serializer on its own: the caller holds one options object, any     *)
(* mapping of up to MaxOpts keys to strings and arrays of strings, and     *)
(* passes that same object to every method that takes options.  What the   *)
(* backend answers does not reach the query string.                        *)

OptionKeys == {"f", "sort"}
OptionValues ==
    {ValueB} \cup {JsArray(a) : a \in SeqsUpTo({ValueA, ValueB}, MaxArr)}
Mappings ==
    {JsObject(m) : m \in {s \in SeqsUpTo([k : OptionKeys, v : OptionValues],
                                          MaxOpts) :
                            \A i, j \in 1..Len(s) : i < j => s[i].k # s[j].k}}

\* after new JXPHelper({server, apikey?})
InitQ ==
    /\ \E o \in ConfigObjects :
        /\ o.server = S1 /\ o.debug = Absent /\ o.hideErrors = Absent
        /\ helper = [configFields(NewObject, assignDefaults(o)) EXCEPT
                        !.api = JsString(StringOf(S1) \o <<"/api">>)]
    /\ ctor = "ok"
    /\ opts \in Mappings
    /\ invocation = [op |-> "none"]
    /\ stack = <<>>
    /\ net = <<>>
    /\ resps = <<>>
    /\ console = <<>>
    /\ outcome = NoOutcome

\* the replies here: no response, and each status with an error body
RepliesQ == {Undefined} \cup {Response(st, ErrorBody) : st \in Statuses}

NextQ ==
    \/ answer(RepliesQ)
    \/ done
    \/ getOne /\ invocation'.opts = opts
    \/ get /\ invocation'.opts = opts
    \/ csv /\ invocation'.opts = opts
    \/ query /\ invocation'.opts = opts
    \/ aggregate /\ invocation'.opts = opts
    \/ count /\ invocation'.opts = opts

SpecQ == InitQ /\ [][NextQ]_vars


---------------------------------------------------------------------------
(* Claims *)

Settled == stack = <<>> /\ outcome.state \in {"resolved", "rejected"}

\* how axios settled the i-th request of the invocation
settledAs(i) == axios(resps[i])
failed(i) == settledAs(i).state = "rejected"

\* C1 as stated: for get, post, put, del, query, aggregate and count, a
\* response that is not a 200 makes the call reject, with the response's body
\* when there is one and with the raw axios error otherwise.
ErrorOps == {"get", "post", "put", "del", "query", "aggregate", "count"}
StatusCheckedOps == {"get", "query", "aggregate", "count"}
C1_BodyElseRawError ==
    (invocation.op \in ErrorOps /\ Len(resps) = 1 /\ resps[1].t = "response"
        /\ resps[1].status # 200)
    => outcome = Rejected(IF resps[1].data.t = "string" /\ resps[1].data.s = <<>>
                          THEN AxiosError(resps[1]) ELSE resps[1].data)

\* C1 as amended: for these seven methods, a response outside 2xx makes the
\* call reject with the data of the response, empty or not; no response makes
\* it reject with the raw axios error; a 2xx response other than 200 makes
\* get, query, aggregate and count reject with the status text, and post, put
\* and del resolve with the data.
C1_FailureValue ==
    (invocation.op \in ErrorOps /\ Len(resps) = 1)
    => LET r == resps[1]
       IN  IF r.t # "response" THEN outcome = Rejected(AxiosError(Undefined))
           ELSE IF r.status < 200 \/ r.status > 299
           THEN outcome = Rejected(r.data)
           ELSE IF r.status # 200
           THEN IF invocation.op \in StatusCheckedOps
                THEN outcome = Rejected(r.statusText)
                ELSE outcome = Resolved(r.data)
           ELSE TRUE

\* count answered 500 with an error body: rejected with that body
C1_Witness ==
    /\ invocation.op = "count"
    /\ Len(resps) = 1
    /\ resps[1].t = "response"
    /\ resps[1].status = 500
    /\ resps[1].data = ErrorBody
    /\ outcome = Rejected(ErrorBody)

\* C8: a method that issues a single request issues exactly one, whether the
\* request succeeds or fails: once it is answered the call is settled and no
\* further request follows.
SingleRequestOps ==
    {"getOne", "get", "csv", "query", "aggregate", "count", "post", "put",
     "del", "del_perm", "del_cascade", "del_perm_cascade", "bulk", "bulk_put",
     "bulk_post", "put_all", "call", "groups_put", "groups_del", "groups_post",
     "getjwt", "model", "models"}
C8_OneRequest ==
    invocation.op \in SingleRequestOps
    => /\ Len(net) = 1
       /\ Len(resps) <= 1
       /\ (Len(resps) = 1 <=> Settled)
       /\ (Len(resps) = 0 <=> Len(stack) = 1 /\ outcome.state = "pending")

\* a bulk write that failed: one request, one reply, rejected
C8_Witness ==
    /\ invocation.op = "bulk"
    /\ Len(net) = 1
    /\ Len(resps) = 1
    /\ failed(1)
    /\ outcome.state = "rejected"

\* C10: constructing with no server, or an empty one, throws at once: no
\* instance results, nothing is requested, and no method can be invoked.
C10_ConstructorRequiresServer ==
    /\ (invocation.op = "constructor"
            /\ invocation.opts.server \in {Absent, EmptyString})
       => /\ ctor = "threw"
          /\ outcome.state = "threw"
          /\ helper = NewObject
          /\ net = <<>>
          /\ stack = <<>>
    /\ ctor # "ok" => /\ invocation.op \in {"none", "constructor"}
                      /\ net = <<>>
                      /\ stack = <<>>

\* new JXPHelper({server: ""}) threw
C10_Witness ==
    /\ invocation.op = "constructor"
    /\ invocation.opts.server = EmptyString
    /\ ctor = "threw"
    /\ net = <<>>


---------------------------------------------------------------------------
(* Claims about the methods that issue several requests *)

Count(method) == Cardinality({i \in 1..Len(net) : net[i].method = method})
hasId(record) == Truthy(GetProp(record, "_id"))
idsOf(list) == {GetProp(list[i], "_id") : i \in {j \in 1..Len(list) : hasId(list[j])}}

\* the listing a 200 reply to GET /api/{type} carries, if r is one
isListing(r) ==
    r.t = "response" /\ r.status = 200 /\ GetProp(r.data, "data").t = "array"
listingOf(r) == GetProp(r.data, "data").a

\* what a failed request makes its method reject with (C1): the data of a
\* response outside 2xx, the status text of a 2xx response that get refuses,
\* the raw axios error when there is no response
requestError(r) ==
    IF r.t # "response" THEN AxiosError(Undefined)
    ELSE IF r.status < 200 \/ r.status > 299 THEN r.data
    ELSE r.statusText

\* the last request was answered and failed
lastFailed == Len(resps) = Len(net) /\ Len(resps) >= 1 /\ failed(Len(resps))

\* the path of request q ends with the id
targets(q, id) ==
    /\ Len(q.path) >= Len(StringOf(id))
    /\ SubSeq(q.path, Len(q.path) - Len(StringOf(id)) + 1, Len(q.path))
         = StringOf(id)

\* C2: once sync is over, and given the listing it obtained, it has issued
\* one post per desired record with no _id or an _id that is not listed, one
\* put per desired record whose _id is listed, and one delete per listed
\* record whose _id is not among the desired ones.
C2_SyncRequests ==
    (invocation.op = "sync" /\ stack = <<>> /\ Len(resps) >= 1
        /\ isListing(resps[1]))
    => LET current == listingOf(resps[1])
           desired == invocation.data.a
           inserts == {i \in 1..Len(desired) :
                         ~hasId(desired[i])
                         \/ GetProp(desired[i], "_id") \notin idsOf(current)}
           updates == {i \in 1..Len(desired) :
                         hasId(desired[i])
                         /\ GetProp(desired[i], "_id") \in idsOf(current)}
           deletes == {j \in 1..Len(current) :
                         GetProp(current[j], "_id") \notin idsOf(desired)}
       IN  /\ Count("POST") = Cardinality(inserts)
           /\ Count("PUT") = Cardinality(updates)
           /\ Count("DELETE") = Cardinality(deletes)

\* C3: sync issues its requests one after the other, the listing, then the
\* posts, then the puts, then the deletes; it rejects only when its last
\* request failed, with that request's error, and it resolves with the
\* results of the writes in the order they were issued.
methodRank(m) ==
    CASE m = "GET" -> 0 [] m = "POST" -> 1 [] m = "PUT" -> 2 [] OTHER -> 3
C3_SyncSequential ==
    invocation.op = "sync"
    => /\ Len(net) <= Len(resps) + 1
       /\ \A i, j \in 1..Len(net) :
            i < j => methodRank(net[i].method) <= methodRank(net[j].method)
       /\ outcome.state = "rejected"
            => lastFailed /\ outcome.v = requestError(resps[Len(resps)])
       /\ outcome.state = "resolved"
            => /\ Len(resps) = Len(net)
               /\ \A i \in 1..Len(resps) : ~failed(i)
               /\ outcome.v = JsArray([i \in 1..(Len(resps) - 1) |->
                                          resps[i + 1].data])

\* C4: del_all lists the matching records and then deletes them one at a
\* time in the order of the listing; it rejects only when its last request
\* failed, with that request's error, and it resolves, after one delete per
\* listed record, with the results of the deletes in that order.
C4_DelAllSequential ==
    invocation.op = "del_all"
    => /\ Len(net) >= 1
       /\ net[1].method = "GET"
       /\ \A i \in 2..Len(net) : net[i].method = "DELETE"
       /\ Len(net) <= Len(resps) + 1
       /\ outcome.state = "rejected"
            => lastFailed /\ outcome.v = requestError(resps[Len(resps)])
       /\ outcome.state = "resolved"
            => /\ isListing(resps[1])
               /\ Len(net) = Len(listingOf(resps[1])) + 1
               /\ Len(resps) = Len(net)
               /\ \A i \in 1..Len(listingOf(resps[1])) :
                    targets(net[i + 1], GetProp(listingOf(resps[1])[i], "_id"))
               /\ outcome.v = JsArray([i \in 1..(Len(resps) - 1) |->
                                          resps[i + 1].data])

\* C5: postput first issues a get filtered by filter[key]=data[key]; once it
\* is answered it issues one post when nothing is listed, one put of the
\* first listed record's _id when something is, and no write when the get
\* failed, in which case postput rejects with the error get rejected with.
C5_PostputLookupThenWrite ==
    invocation.op = "postput"
    => /\ Len(net) >= 1
       /\ net[1].method = "GET"
       /\ SubSeq(net[1].query, 1, 3)
            = <<filterName(invocation.key), "=">>
                \o StringOf(GetProp(invocation.data,
                                    propertyName(invocation.key)))
       /\ Len(net) <= 2
       /\ Len(net) <= Len(resps) + 1
       /\ Len(resps) >= 1
            => IF failed(1) \/ resps[1].status # 200
               THEN Len(net) = 1 /\ outcome = Rejected(requestError(resps[1]))
               ELSE isListing(resps[1])
                    => /\ Len(net) = 2
                       /\ IF listingOf(resps[1]) = <<>>
                          THEN net[2].method = "POST"
                          ELSE /\ net[2].method = "PUT"
                               /\ targets(net[2],
                                    GetProp(listingOf(resps[1])[1], "_id"))

\* how post and put settle, given the reply to their request
writeOutcome(r) ==
    IF r.t = "response" /\ r.status >= 200 /\ r.status <= 299
    THEN Resolved(r.data) ELSE Rejected(requestError(r))

\* C6: given an array of n records bulk_postput issues one bulkwrite request
\* of n updateOne entries in the order of the records, each with upsert
\* true, the record as update and a filter of exactly the key fields with the
\* record's values; given a single record it issues no bulkwrite request and
\* ends as postput does: as the write ends, or with the error of the lookup.
keyFields(key) ==
    IF key.t = "array" THEN {propertyName(key.a[i]) : i \in 1..Len(key.a)}
    ELSE {propertyName(key)}
isBulkwrite(q) == \E i \in 1..Len(q.path) : q.path[i] = "bulkwrite"
C6_BulkPostput ==
    invocation.op = "bulk_postput"
    => IF invocation.data.t = "array"
       THEN /\ Len(net) = 1
            /\ net[1].method = "POST"
            /\ isBulkwrite(net[1])
            /\ net[1].body.t = "array"
            /\ Len(net[1].body.a) = Len(invocation.data.a)
            /\ \A i \in 1..Len(invocation.data.a) :
                LET u == GetProp(net[1].body.a[i], "updateOne")
                    f == GetProp(u, "filter")
                IN  /\ GetProp(u, "upsert") = JsBoolean(TRUE)
                    /\ GetProp(u, "update") = invocation.data.a[i]
                    /\ Keys(f.m) = keyFields(invocation.key)
                    /\ \A k \in keyFields(invocation.key) :
                         GetProp(f, k) = GetProp(invocation.data.a[i], k)
       ELSE /\ \A i \in 1..Len(net) : ~isBulkwrite(net[i])
            /\ Len(net) <= 2
            /\ (Settled /\ Len(resps) = 2) => outcome = writeOutcome(resps[2])
            /\ (Settled /\ Len(resps) = 1 /\ (failed(1) \/ resps[1].status # 200))
                 => outcome = Rejected(requestError(resps[1]))

\* C9: login never rejects: it resolves with the body of the response to the
\* request that failed, or with {data, user} when both requests succeeded;
\* the user is requested only once the login request has been answered.
C9_LoginNeverRejects ==
    invocation.op = "login"
    => /\ outcome.state # "rejected"
       /\ Len(net) <= Len(resps) + 1
       /\ (Settled /\ lastFailed)
            => /\ resps[Len(resps)].t = "response"
               /\ outcome = Resolved(resps[Len(resps)].data)
       /\ (Settled /\ Len(resps) = 2 /\ ~failed(1) /\ ~failed(2))
            => outcome = Resolved(JsObject(<<Prop("data", resps[1].data),
                                             Prop("user", resps[2].data)>>))


---------------------------------------------------------------------------
(* Claims about the query string *)

QueryOps == {"getOne", "get", "csv", "query", "aggregate", "count"}

\* the pieces of s between the separators
RECURSIVE split(_, _)
split(s, sep) ==
    IF \A i \in 1..Len(s) : s[i] # sep THEN <<s>>
    ELSE LET i == CHOOSE i \in 1..Len(s) :
                    s[i] = sep /\ \A j \in 1..(i - 1) : s[j] # sep
         IN  <<SubSeq(s, 1, i - 1)>> \o split(SubSeq(s, i + 1, Len(s)), sep)

\* what a backend reads back from a percent-encoded value
DecodeChar(c) ==
    CASE c = "%26" -> "&"
      [] c = "%3D" -> "="
      [] c = "%20" -> " "
      [] OTHER -> c
decodeURIComponent(cs) == [i \in 1..Len(cs) |-> DecodeChar(cs[i])]

\* the key/value pairs a mapping stands for, in insertion order: one per
\* scalar, one per element of an array
RECURSIVE pairsOf(_)
pairsOf(m) ==
    IF m = <<>> THEN <<>>
    ELSE (IF Head(m).v.t = "array"
          THEN [j \in 1..Len(Head(m).v.a) |-> Prop(Head(m).k, Head(m).v.a[j])]
          ELSE <<Head(m)>>) \o pairsOf(Tail(m))

\* q is the '&'-join of key=value, value percent-encoded, for the pairs ps
serializes(q, ps) ==
    LET parts == split(q, "&")
    IN  /\ Len(parts) = Len(ps)
        /\ \A i \in 1..Len(ps) :
            /\ Len(parts[i]) >= 2
            /\ parts[i][1] = ps[i].k
            /\ parts[i][2] = "="
            /\ decodeURIComponent(SubSeq(parts[i], 3, Len(parts[i])))
                 = StringOf(ps[i].v)

\* how often k= starts a piece of q
occurrences(q, k) ==
    LET parts == split(q, "&")
    IN  Cardinality({i \in 1..Len(parts) :
                       Len(parts[i]) >= 2 /\ parts[i][1] = k
                       /\ parts[i][2] = "="})

\* the mapping the method hands to the serializer: the caller's, to which
\* count adds limit
serialized ==
    LET m == IF Truthy(invocation.opts) THEN invocation.opts.m ELSE <<>>
    IN  IF invocation.op = "count" THEN SetProp(m, "limit", JsNumber(1))
        ELSE m
notApikey(p) == p.k # "apikey"

\* C7 as stated: the query string of a request is the '&'-join, in insertion
\* order, of one pair per scalar option and one per element of an array
\* option, a key holding n elements occurring n times, followed by the
\* apikey pair with the configured key.
C7_ApikeyLast ==
    (invocation.op \in QueryOps /\ Len(net) >= 1)
    => /\ serializes(net[1].query,
                     pairsOf(SelectSeq(serialized, notApikey))
                       \o <<Prop("apikey", helper.apikey)>>)
       /\ \A i \in 1..Len(serialized) :
            (serialized[i].v.t = "array" /\ notApikey(serialized[i]))
            => occurrences(net[1].query, serialized[i].k)
                 = Len(serialized[i].v.a)

\* C7 as amended: the same, except for the place of the apikey pair, which
\* occurs once with the configured key: at the place of the mapping's own
\* apikey entry when it has one, after all the other pairs otherwise.
C7_QueryString ==
    (invocation.op \in QueryOps /\ Len(net) >= 1)
    => /\ serializes(net[1].query,
                     pairsOf(SetProp(serialized, "apikey", helper.apikey)))
       /\ \A i \in 1..Len(serialized) :
            (serialized[i].v.t = "array" /\ notApikey(serialized[i]))
            => occurrences(net[1].query, serialized[i].k)
                 = Len(serialized[i].v.a)
       /\ occurrences(net[1].query, "apikey") = 1

\* count is called with a mapping that get has been called with: it holds
\* an apikey entry, limit comes after it, and an array of two values with
\* reserved characters is serialized
C7_Witness ==
    /\ invocation.op = "count"
    /\ Len(net) = 1
    /\ helper.apikey = K1
    /\ invocation.opts.t = "object"
    /\ "apikey" \in Keys(invocation.opts.m)
    /\ "limit" \notin Keys(invocation.opts.m)
    /\ \E i \in 1..Len(invocation.opts.m) :
         invocation.opts.m[i].v = JsArray(<<ValueB, ValueA>>)


---------------------------------------------------------------------------
(* Claims about the configuration *)

\* C11: once a helper has been constructed, its server is never empty,
\* whatever config calls and operations follow.
C11_ServerNonEmpty == ctor = "ok" => Truthy(helper.server)

startsWith(s, prefix) ==
    Len(s) >= Len(prefix) /\ SubSeq(s, 1, Len(prefix)) = prefix

\* the query q has the pair apikey=key, the key written as it is or
\* percent-encoded, at its end or before the next pair
carriesApikey(q, key) ==
    \E i \in 1..(Len(q) - 1), v \in {StringOf(key), encodeURIComponent(key)} :
        LET e == i + 1 + Len(v)
        IN  /\ q[i] = "apikey"
            /\ q[i + 1] = "="
            /\ e <= Len(q)
            /\ SubSeq(q, i + 2, e) = v
            /\ (e = Len(q) \/ q[e + 1] = "&")

\* C12: every request of an operation is built from the configuration as
\* the last config call left it: its URL starts with the current server and
\* its apikey parameter carries the current key; timing lines are printed
\* only when debug is set, diagnostics only when hideErrors is not.
C12_ConfigTakesEffect ==
    /\ \A i \in 1..Len(net) :
        /\ startsWith(net[i].path, StringOf(helper.server))
        /\ net[i].query = <<>> \/ carriesApikey(net[i].query, helper.apikey)
    /\ \A j \in 1..Len(console) :
        /\ console[j] \in {"time", "timeEnd", "log"} => Truthy(helper.debug)
        /\ console[j] \in {"error", "dump"} => ~Truthy(helper.hideErrors)

---------------------------------------------------------------------------
(* Claims about the diagnostics *)

NotOperations == {"none", "constructor", "config"}

\* C13: when a request of an operation has failed and hideErrors is not
\* set, a diagnostic line (the formatted one, or the raw dump) has been
\* printed by the time the operation is over.
C13_DiagnosticOnFailure ==
    (/\ invocation.op \notin NotOperations
     /\ Settled
     /\ ~Truthy(helper.hideErrors)
     /\ \E i \in 1..Len(resps) : failed(i))
    => \E j \in 1..Len(console) : console[j] \in {"error", "dump"}


====
